---- MODULE Spec2Model ----
(***************************************************************************)
(* Model of the POST /unfold service of freecad-microservice.              *)
(*                                                                         *)
(* The repository ships two variants of the service:                       *)
(*   src/main.py          "main"          async handler, no validation,    *)
(*                                        no rate limiter                  *)
(*   src/main_freecad.py  "main_freecad"  sync handler (worker threads),   *)
(*                                        size / MIME checks, rate limiter *)
(* The variable `variant` says which of the two files is being served.     *)
(* The external libraries (CAD kernel, unfolder, DXF parser, MIME sniffer, *)
(* filesystem) are modelled by their effect on the state the handler       *)
(* touches, each call being allowed to raise.                              *)
(***************************************************************************)
EXTENDS Integers, Sequences, FiniteSets, TLC

\* ---------------------------------------------------------------- bounds
MaxReqs == 2          \* requests observed (each gets a fresh id)
MaxEntities == 1      \* modelspace entities of an uploaded DXF

\* ------------------------------------------------------ program constants
MAX_MB == 2                    \* "if size_mb > 2"
MB == 1048576                  \* 1024 * 1024
RateLimit == 10                \* default_limits=["10/minute"]
SCALE_MM == 3937               \* scaling_factor = 0.03937, in 1/SCALE_ONE
SCALE_ONE == 100000            \* scaling_factor = 1.0,     in 1/SCALE_ONE

Reqs == 1..MaxReqs
Addrs == {"10.0.0.1", "10.0.0.2"}
Variants == {"main", "main_freecad"}

\* the MIME types the sniffer is made to report, and the handler's allow list
AllowedMimes == {"application/dxf", "application/octet-stream", "text/plain"}
Mimes == AllowedMimes \cup {"application/pdf"}

\* upload sizes in bytes: at the threshold and one byte over it
Sizes == {MAX_MB * MB, MAX_MB * MB + 1}

\* file.filename of the upload; NoName is a part without a filename (None)
NoName == "<None>"
Filenames == {NoName, "part.DXF", "part.step"}

VARIABLES
    variant,    \* which source file is served
    unfolder,   \* SheetMetalUnfolder loaded at import time (else None)
    req,        \* per request: handler position, locals and response
    files,      \* temp files present on the filesystem: <<request, kind>>
    docs,       \* names of the CAD-kernel documents that are open
    objects,    \* objects of each document, as the request that imported each
    active,     \* FreeCAD.ActiveDocument (0: none)
    count,      \* requests per client address that reached a handler in the
                \* current one-minute window (what the limiter counts)
    loop        \* main.py: request whose coroutine holds the event loop (0: none)

vars == <<variant, unfolder, req, files, docs, objects, active, count, loop>>

\* ------------------------------------------------------------- helpers

\* os.path.splitext(filename)[-1].lower()
Suffix(filename) ==
    CASE filename = "part.DXF" -> ".dxf"
      [] filename = "part.step" -> ".step"
      [] OTHER -> ""

\* A request's record holds the handler's position (pc), its locals and its
\* response. A local is kept as long as a later statement reads it or a
\* response still has to be compared with it, and is reset afterwards.
\*   size, mime: the upload's length in bytes and the type the MIME sniffer
\*              finds in it; kept until the upload is copied to the temp file
\*   swallowed: an exception of the scaling loop was discarded (a history
\*              variable, the code keeps no such flag)
\*   calls:     the external libraries called so far (a history variable)
Fresh ==
    [pc |-> "idle", addr |-> "-", size |-> 0, mime |-> "-", suffix |-> "-",
     tmp_path |-> "none", flat_dxf_path |-> FALSE, doc |-> FALSE, obj |-> 0,
     insunits |-> 0, units_detected |-> "unknown", scaling_factor |-> SCALE_ONE,
     msp |-> <<>>, swallowed |-> FALSE,
     calls |-> {}, status |-> 0, body |-> "-", raised |-> FALSE]

\* "except Exception": 500 with an error / details body, then the finally
\* block, which reads tmp_path and flat_dxf_path only
Caught(q) ==
    [Fresh EXCEPT !.pc = "finally", !.status = 500, !.body = "error",
                  !.tmp_path = q.tmp_path, !.flat_dxf_path = q.flat_dxf_path]

\* the handler has returned: its frame is gone, the response is left
Done(q) ==
    [Fresh EXCEPT !.pc = "done", !.status = q.status, !.body = q.body,
                  !.raised = q.raised]

\* a return statement inside the try block: the finally block runs next
Return(q, code, content) ==
    [q EXCEPT !.status = code, !.body = content, !.pc = "finally"]

Upd(r, q) == req' = [req EXCEPT ![r] = q]

\* the request may take a step: a worker thread always, a coroutine of
\* main.py only while it holds the event loop
Runnable(r) == variant = "main_freecad" \/ loop = r

\* requests are numbered in order of arrival
NextToArrive(r) == req[r].pc = "idle" /\ \A s \in Reqs : s < r => req[s].pc # "idle"

\* ------------------------------------------------------------- initial state
Init ==
    /\ variant \in Variants
    /\ unfolder \in BOOLEAN
    /\ req = [r \in Reqs |-> Fresh]
    /\ files = {}
    /\ docs = {}
    /\ objects = [r \in Reqs |-> <<>>]
    /\ active = 0
    \* observation starts inside a window in which one address has already
    \* sent RateLimit - 1 requests that left nothing behind (e.g. answered 500
    \* for a missing filename), the other none
    /\ count = [a \in Addrs |-> IF a = "10.0.0.1" THEN RateLimit - 1 ELSE 0]
    /\ loop = 0

\* ------------------------------------------------- middleware (main_freecad)

\* mutant of WithinLimit: the limit is compared with <=
WithinLimitInclusive(a) == count[a] <= RateLimit

\* key_func=get_remote_address: the limiter keeps one counter per address
LimiterKey(a) == a

\* default_limits=["10/minute"]: a hit is allowed while the window's counter
\* is below the limit
WithinLimit(a) == count[LimiterKey(a)] < RateLimit

Hit(a) == [count EXCEPT ![LimiterKey(a)] = @ + 1]

\* SlowAPIMiddleware in front of the sync handler of main_freecad.py
Arrive(r, sizes, mimes) ==
    /\ variant = "main_freecad"
    /\ NextToArrive(r)
    /\ \E a \in Addrs, size \in sizes, m \in mimes :
         IF WithinLimit(a)
         THEN /\ count' = Hit(a)
              /\ Upd(r, [req[r] EXCEPT !.addr = a, !.size = size, !.mime = m,
                                       !.pc = "check"])
         ELSE \* rate_limit_handler: 429, the handler is not run
              /\ count' = count
              /\ Upd(r, [req[r] EXCEPT !.addr = a, !.status = 429,
                                       !.body = "plain", !.pc = "done"])
    /\ UNCHANGED <<variant, unfolder, files, docs, objects, active, loop>>

\* the minute window of the limiter runs out: its counters start again
WindowExpire ==
    /\ \E a \in Addrs : count[a] > 0
    /\ count' = [a \in Addrs |-> 0]
    /\ UNCHANGED <<variant, unfolder, req, files, docs, objects, active, loop>>

\* ------------------------------------------- validation (main_freecad only)

\* mutant of TooLarge: the threshold itself is rejected
TooLargeInclusive(size) == size >= MAX_MB * MB

\* size_mb = file.file.tell() / (1024 * 1024);  if size_mb > 2
TooLarge(size) == size > MAX_MB * MB

\* mutant of MimeRejected: text/plain is missing from the list
MimeRejectedNoText(mime) ==
    mime \notin {"application/dxf", "application/octet-stream"}

\* if mime not in [...]
MimeRejected(mime) == mime \notin AllowedMimes

\* mutant of Validate: the upload is copied to the temp file before it is
\* checked
ValidateAfterWrite(r) ==
    /\ variant = "main_freecad"
    /\ req[r].pc = "check"
    /\ files' = files \cup {<<r, "tmp">>}
    /\ LET q == [req[r] EXCEPT !.addr = "-", !.tmp_path = "tmp"] IN
       IF TooLarge(q.size)
       THEN Upd(r, Return(q, 413, "error"))
       ELSE IF MimeRejected(q.mime)
       THEN Upd(r, Return([q EXCEPT !.calls = {"magic"}], 415, "error"))
       ELSE Upd(r, [q EXCEPT !.calls = {"magic"}, !.pc = "write"])
    /\ UNCHANGED <<variant, unfolder, docs, objects, active, count, loop>>

Validate(r) ==
    /\ variant = "main_freecad"
    /\ req[r].pc = "check"
    /\ LET q == [req[r] EXCEPT !.addr = "-"] IN
       IF TooLarge(q.size)
       THEN Upd(r, Return(q, 413, "error"))
       ELSE \E sniffed \in BOOLEAN :      \* magic.from_buffer may raise
              LET qm == [q EXCEPT !.calls = @ \cup {"magic"}] IN
              IF ~sniffed THEN Upd(r, Caught(qm))
              ELSE IF MimeRejected(qm.mime) THEN Upd(r, Return(qm, 415, "error"))
              ELSE Upd(r, [qm EXCEPT !.pc = "write"])
    /\ UNCHANGED <<variant, unfolder, files, docs, objects, active, count, loop>>

\* suffix = splitext(file.filename)[-1].lower(); NamedTemporaryFile(delete=
\* False); tmp.write(...); tmp_path = tmp.name
WriteTemp(r, names) ==
    /\ variant = "main_freecad"
    /\ req[r].pc = "write"
    /\ \E fn \in names, outcome \in {"create_raises", "write_raises", "ok"} :
         IF fn = NoName
         THEN /\ Upd(r, Caught(req[r]))      \* splitext(None): TypeError
              /\ files' = files
         ELSE LET q == [req[r] EXCEPT !.suffix = Suffix(fn), !.mime = "-",
                                      !.size = 0] IN
              CASE outcome = "create_raises" ->
                     /\ Upd(r, Caught(q))
                     /\ files' = files
                [] outcome = "write_raises" ->
                     \* the file exists, tmp_path is still None
                     /\ Upd(r, Caught(q))
                     /\ files' = files \cup {<<r, "tmp">>}
                [] OTHER ->
                     /\ Upd(r, [q EXCEPT !.tmp_path = "tmp", !.pc = "newdoc"])
                     /\ files' = files \cup {<<r, "tmp">>}
    /\ UNCHANGED <<variant, unfolder, docs, objects, active, count, loop>>

\* ------------------------------------------------ start of main.py's handler

\* main.py runs the handler as a coroutine: from its first line up to
\* "await file.read()" inside the with block (the temp file is created, not
\* yet written, tmp_path not yet assigned)
Start(r, sizes, mimes, names) ==
    /\ variant = "main"
    /\ NextToArrive(r)
    /\ loop = 0
    /\ \E a \in Addrs, size \in sizes, m \in mimes, fn \in names,
          created \in BOOLEAN :
         LET q == [req[r] EXCEPT !.size = size, !.mime = m] IN
         /\ count' = [count EXCEPT ![a] = @ + 1]
         /\ IF fn = NoName \/ ~created
            THEN /\ Upd(r, Caught([q EXCEPT !.suffix =
                                      IF fn = NoName THEN "-" ELSE Suffix(fn)]))
                 /\ files' = files
                 /\ loop' = r
            ELSE /\ Upd(r, [q EXCEPT !.suffix = Suffix(fn), !.pc = "await"])
                 /\ files' = files \cup {<<r, "tmp">>}
                 /\ loop' = 0
    /\ UNCHANGED <<variant, unfolder, docs, objects, active>>

\* the coroutine is resumed after the await: tmp.write(...); tmp_path = tmp.name
Resume(r) ==
    /\ variant = "main"
    /\ req[r].pc = "await"
    /\ loop = 0
    /\ loop' = r
    /\ \E written \in BOOLEAN :
         IF written
         THEN Upd(r, [req[r] EXCEPT !.tmp_path = "tmp", !.size = 0,
                                   !.mime = "-", !.pc = "newdoc"])
         ELSE Upd(r, Caught(req[r]))
    /\ UNCHANGED <<variant, unfolder, files, docs, objects, active, count>>

\* --------------------------------------------- the body shared by both files

\* doc = FreeCAD.newDocument(): a new document with a unique name, which the
\* kernel also makes the active document
NewDoc(r) ==
    /\ req[r].pc = "newdoc"
    /\ Runnable(r)
    /\ \E ok \in BOOLEAN :
         LET q == [req[r] EXCEPT !.calls = @ \cup {"kernel"}] IN
         IF ok
         THEN /\ docs' = docs \cup {r}
              /\ active' = r
              /\ Upd(r, [q EXCEPT !.doc = TRUE,
                           !.pc = IF q.suffix = ".dxf" THEN "parse" ELSE "partread"])
         ELSE /\ Upd(r, Caught(q))
              /\ UNCHANGED <<docs, active>>
    /\ UNCHANGED <<variant, unfolder, files, objects, count, loop>>

\* header values of $INSUNITS in the uploads: absent (default 0), 1, 4, 6
Insunits == {0, 1, 4, 6}

\* modelspaces of the uploads: per entity, whether scale_uniform works on it
Modelspaces ==
    UNION {[1..n -> [scalable : BOOLEAN, scale : {SCALE_ONE}]] : n \in 0..MaxEntities}

\* if units == 4: "mm" / elif units == 1: "inch" / else the initial "unknown"
UnitsDetected(units) ==
    CASE units = 4 -> "mm"
      [] units = 1 -> "inch"
      [] OTHER -> "unknown"

\* mutant of ScalingFactor: inch drawings are rescaled too
ScalingFactorInchToo(units) == IF units \in {1, 4} THEN SCALE_MM ELSE SCALE_ONE

\* scaling_factor, as a multiple of 1/SCALE_ONE
ScalingFactor(units) == IF units = 4 THEN SCALE_MM ELSE SCALE_ONE

\* e.scale_uniform(scaling_factor) on an entity that supports it
ScaleUniform(e, factor) == [e EXCEPT !.scale = (@ * factor) \div SCALE_ONE]

\* try: e.scale_uniform(...)  except Exception: continue
ScaleEntity(e, factor) == IF e.scalable THEN ScaleUniform(e, factor) ELSE e

\* if scaling_factor != 1.0: for e in msp: ...
ScaleModelspace(msp, factor) ==
    IF factor # SCALE_ONE
    THEN [i \in DOMAIN msp |-> ScaleEntity(msp[i], factor)]
    ELSE msp

\* the loop met an entity whose scale_uniform raised
Swallowed(msp, factor) ==
    factor # SCALE_ONE /\ \E i \in DOMAIN msp : ~msp[i].scalable

\* ezdxf.readfile, unit detection, layers / notes, the scaling loop
ParseDxf(r, headers, drawings) ==
    /\ req[r].pc = "parse"
    /\ Runnable(r)
    /\ \E readable \in BOOLEAN, units \in headers, msp \in drawings :
         LET q == [req[r] EXCEPT !.calls = @ \cup {"ezdxf"}] IN
         IF readable
         THEN Upd(r, [q EXCEPT !.insunits = units,
                               !.units_detected = UnitsDetected(units),
                               !.scaling_factor = ScalingFactor(units),
                               !.msp = ScaleModelspace(msp, ScalingFactor(units)),
                               !.swallowed = Swallowed(msp, ScalingFactor(units)),
                               !.pc = "saveas"])
         ELSE Upd(r, Caught(q))
    /\ UNCHANGED <<variant, unfolder, files, docs, objects, active, count, loop>>

\* ascii_path = tmp_path + "_ascii.dxf"; dxf_doc.saveas(ascii_path);
\* tmp_path = ascii_path
SaveAscii(r) ==
    /\ req[r].pc = "saveas"
    /\ Runnable(r)
    /\ \E outcome \in {"raises", "raises_partial", "ok"} :
         CASE outcome = "raises" ->
                /\ Upd(r, Caught(req[r]))
                /\ files' = files
           [] outcome = "raises_partial" ->
                \* the file was opened for writing before the failure
                /\ Upd(r, Caught(req[r]))
                /\ files' = files \cup {<<r, "ascii">>}
           [] OTHER ->
                \* dxf_doc and the header value are not read again
                /\ Upd(r, [req[r] EXCEPT !.tmp_path = "ascii", !.msp = <<>>,
                                         !.insunits = 0, !.pc = "import"])
                /\ files' = files \cup {<<r, "ascii">>}
    /\ UNCHANGED <<variant, unfolder, docs, objects, active, count, loop>>

\* mutant of ImportTarget: both files import into the active document
ImportTargetActive(r) == active

\* the document an import of request r lands in:
\*   main.py          Import.importDXF(tmp_path)       -> the active document
\*   main_freecad.py  Import.insert(tmp_path, doc.Name) -> the named document
ImportTarget(r) == IF variant = "main" THEN active ELSE r

\* the import, then obj = doc.Objects[-1]
ImportDxf(r) ==
    /\ req[r].pc = "import"
    /\ Runnable(r)
    /\ \E outcome \in {"raises", "empty", "ok"} :
         LET q == [req[r] EXCEPT !.calls = @ \cup {"kernel"}]
             landed == IF outcome = "ok"
                       THEN [objects EXCEPT ![ImportTarget(r)] = Append(@, r)]
                       ELSE objects
         IN
         IF outcome = "raises"
         THEN /\ Upd(r, Caught(q))
              /\ objects' = objects
         ELSE /\ objects' = landed
              /\ IF landed[r] = <<>>
                 THEN Upd(r, Caught(q))         \* Objects[-1]: IndexError
                 ELSE Upd(r, [q EXCEPT !.obj = landed[r][Len(landed[r])],
                                       !.pc = "unfold"])
    /\ UNCHANGED <<variant, unfolder, files, docs, active, count, loop>>

\* shape = Part.read(tmp_path); obj = doc.addObject(...); obj.Shape = shape
PartRead(r) ==
    /\ req[r].pc = "partread"
    /\ Runnable(r)
    /\ \E ok \in BOOLEAN :
         LET q == [req[r] EXCEPT !.calls = @ \cup {"kernel"}] IN
         IF ok
         THEN /\ objects' = [objects EXCEPT ![r] = Append(@, r)]
              /\ Upd(r, [q EXCEPT !.obj = r, !.pc = "unfold"])
         ELSE /\ Upd(r, Caught(q))
              /\ objects' = objects
    /\ UNCHANGED <<variant, unfolder, files, docs, active, count, loop>>

\* mutant of Unfold: the except around the unfolding logs the failure and
\* goes on to the response
UnfoldLogsOnly(r) ==
    /\ req[r].pc = "unfold"
    /\ Runnable(r)
    /\ \E failed \in BOOLEAN :
         LET q == [req[r] EXCEPT !.calls = @ \cup {"kernel", "unfold"}] IN
         IF failed \/ ~(unfolder /\ q.obj # 0)
         THEN /\ Upd(r, [q EXCEPT !.pc = "respond"])
              /\ files' = files
         ELSE /\ Upd(r, [q EXCEPT !.flat_dxf_path = TRUE, !.pc = "respond"])
              /\ files' = files \cup {<<r, "flat">>}
    /\ UNCHANGED <<variant, unfolder, docs, objects, active, count, loop>>

\* doc.recompute(); if SheetMetalUnfolder and obj: makeUnfold, recompute,
\* bounding box, NamedTemporaryFile for the flat pattern, export, read back.
\* Both files answer a failure in here with 500 (main_freecad.py in its inner
\* except, main.py in the outer one).
Unfold(r) ==
    /\ req[r].pc = "unfold"
    /\ Runnable(r)
    /\ \E outcome \in {"recompute_raises", "unfold_raises", "create_raises",
                       "export_raises", "ok"} :
         LET q == [req[r] EXCEPT !.calls = @ \cup {"kernel"}]
             qu == [q EXCEPT !.calls = @ \cup {"unfold"}]
         IN
         IF outcome = "recompute_raises"
         THEN /\ Upd(r, Caught(q))
              /\ files' = files
         ELSE IF ~(unfolder /\ q.obj # 0)
         THEN /\ Upd(r, [q EXCEPT !.pc = "respond"])
              /\ files' = files
         ELSE CASE outcome \in {"unfold_raises", "create_raises"} ->
                     /\ Upd(r, Caught(qu))
                     /\ files' = files
                [] outcome = "export_raises" ->
                     /\ Upd(r, Caught([qu EXCEPT !.flat_dxf_path = TRUE]))
                     /\ files' = files \cup {<<r, "flat">>}
                [] OTHER ->
                     /\ Upd(r, [qu EXCEPT !.flat_dxf_path = TRUE, !.pc = "respond"])
                     /\ files' = files \cup {<<r, "flat">>}
    /\ UNCHANGED <<variant, unfolder, docs, objects, active, count, loop>>

\* bbox = obj.Shape.BoundBox ...; return JSONResponse({...})
Respond(r) ==
    /\ req[r].pc = "respond"
    /\ Runnable(r)
    /\ \E ok \in BOOLEAN :
         IF ok THEN Upd(r, Return(req[r], 200, "result"))
               ELSE Upd(r, Caught(req[r]))
    /\ UNCHANGED <<variant, unfolder, files, docs, objects, active, count, loop>>

\* the path tmp_path names, and whether the finally block's guard passes
TmpExists(r) == req[r].tmp_path # "none" /\ <<r, req[r].tmp_path>> \in files
FlatExists(r) == req[r].flat_dxf_path /\ <<r, "flat">> \in files

\* an exception leaves the finally block: the response built so far is lost
\* and the framework answers with its plain 500
Propagated(q) ==
    Done([q EXCEPT !.status = 500, !.body = "plain", !.raised = TRUE])

\* finally: if tmp_path and exists(tmp_path): remove(tmp_path)
\*          if flat_dxf_path and exists(flat_dxf_path): remove(flat_dxf_path)
Finally(r) ==
    /\ req[r].pc = "finally"
    /\ Runnable(r)
    /\ \E rm1, rm2 \in BOOLEAN :     \* does os.remove succeed
         LET after1 == IF TmpExists(r) THEN files \ {<<r, req[r].tmp_path>>}
                       ELSE files
             after2 == IF FlatExists(r) THEN after1 \ {<<r, "flat">>} ELSE after1
         IN
         IF TmpExists(r) /\ ~rm1
         THEN /\ files' = files
              /\ Upd(r, Propagated(req[r]))
         ELSE IF FlatExists(r) /\ ~rm2
         THEN /\ files' = after1
              /\ Upd(r, Propagated(req[r]))
         ELSE /\ files' = after2
              /\ Upd(r, Done(req[r]))
    /\ loop' = 0
    /\ UNCHANGED <<variant, unfolder, docs, objects, active, count>>

\* ------------------------------------------------------------ specification

\* a step of the handler of request r, the uploads being drawn from the
\* given sets
Handle(r, names, headers, drawings) ==
    \/ Validate(r)
    \/ WriteTemp(r, names)
    \/ Resume(r)
    \/ NewDoc(r)
    \/ ParseDxf(r, headers, drawings)
    \/ SaveAscii(r)
    \/ ImportDxf(r)
    \/ PartRead(r)
    \/ Unfold(r)
    \/ Respond(r)
    \/ Finally(r)

\* no request is being handled
Quiet == \A r \in Reqs : req[r].pc \in {"idle", "done"}

\* Spec: the requests are served one after the other; every upload of
\* Sizes x Mimes x Filenames x Insunits x Modelspaces is tried
Next ==
    \/ \E r \in Reqs : Quiet /\ Arrive(r, Sizes, Mimes)
    \/ \E r \in Reqs : Quiet /\ Start(r, Sizes, Mimes, Filenames)
    \/ \E r \in Reqs : Handle(r, Filenames, Insunits, Modelspaces)
    \/ Quiet /\ WindowExpire

Spec == Init /\ [][Next]_vars

\* SpecConc: the requests overlap in every way the scheduling allows (worker
\* threads in main_freecad.py, coroutines in main.py); the uploads are DXF or
\* STEP files of one size and MIME type with one drawing
ConcSizes == {MAX_MB * MB}
ConcMimes == {"application/dxf"}
ConcNames == {"part.DXF", "part.step"}
ConcHeaders == {4}
ConcDrawings == {<<[scalable |-> TRUE, scale |-> SCALE_ONE]>>}

NextConc ==
    \/ \E r \in Reqs : Arrive(r, ConcSizes, ConcMimes)
    \/ \E r \in Reqs : Start(r, ConcSizes, ConcMimes, ConcNames)
    \/ \E r \in Reqs : Handle(r, ConcNames, ConcHeaders, ConcDrawings)

SpecConc == Init /\ [][NextConc]_vars

TypeOK ==
    /\ variant \in Variants
    /\ files \subseteq (Reqs \X {"tmp", "ascii", "flat"})
    /\ docs \subseteq Reqs
    /\ active \in 0..MaxReqs
    /\ loop \in 0..MaxReqs

\* =================================================================== claims

\* temp files of request r that are on the filesystem
FilesOf(r) == {f \in files : f[1] = r}

\* the handler of r was entered and has produced its response
Decided(r) == req[r].pc = "finally"

\* ---------------------------------------------------------------------- C1
\* C1 (as claimed): once a request has returned, none of the temp files it
\* created (upload copy, _ascii.dxf re-save, flat-pattern export) is left on
\* the filesystem, whatever the exit path.
C1_TempFilesRemoved ==
    \A r \in Reqs : req[r].pc = "done" => FilesOf(r) = {}

C4_AllFailuresCaught ==
    \A r \in Reqs :
        (req[r].pc = "done" /\ req[r].status # 429)
            => /\ req[r].status \in {200, 413, 415, 500}
               /\ ~req[r].raised
               /\ (req[r].status = 500 => req[r].body = "error")

C8_NothingSurvives ==
    (\A r \in Reqs : req[r].pc \in {"idle", "done"}) => (docs = {} /\ files = {})

\* ---------------------------------------------------------------------- C9
\* C9: a request answered 413 or 415 has written no temp file, has created no
\* CAD document and has called neither the DXF parser, the CAD kernel nor the
\* unfolder.
C9_RejectedEarly ==
    \A r \in Reqs :
        req[r].status \in {413, 415}
            => /\ FilesOf(r) = {}
               /\ r \notin docs /\ objects[r] = <<>> /\ active # r
               /\ req[r].tmp_path = "none" /\ ~req[r].flat_dxf_path
               /\ ~req[r].doc
               /\ req[r].calls \cap {"ezdxf", "kernel", "unfold"} = {}

C9_Witness ==
    \E r, s \in Reqs :
        /\ req[r].pc = "done" /\ req[r].status = 413
        /\ Decided(s) /\ req[s].status = 415

\* --------------------------------------------------------------------- C10
\* C10: however the requests overlap, every object of a document was imported
\* by the request that created the document, the object a request works on
\* comes from its own import, and a temp file is created and removed only by
\* steps of the request whose name it carries.
C10_Isolation ==
    /\ [](\A r \in Reqs :
            /\ \A i \in DOMAIN objects[r] : objects[r][i] = r /\ r \in docs
            /\ req[r].obj \in {0, r})
    /\ [][\A f \in (files \ files') \cup (files' \ files) :
            req[f[1]] # req'[f[1]] /\ \A s \in Reqs \ {f[1]} : req[s] = req'[s]
         ]_vars

C10_Witness ==
    \E r, s \in Reqs :
        /\ r # s
        /\ req[r].pc = "unfold" /\ req[s].pc = "unfold"
        /\ objects[r] = <<r>> /\ objects[s] = <<s>>
        /\ active = r /\ s > r

====
